---------------------------- MODULE Spec2Model ----------------------------
(***************************************************************************)
(* Model of src/src/components/MinecraftEditor.tsx: the grid-painting and  *)
(* viewport engine of the 2D block editor.                                 *)
(*                                                                         *)
(* The component is a React function component.  Its state lives in        *)
(* useState cells; every handler is a closure created by the last render   *)
(* and reads the values that render captured.  The model keeps both:       *)
(*   st  the current value of every useState cell (all queued updates      *)
(*       applied, in order);                                               *)
(*   r   the values captured by the last render, which the handlers and    *)
(*       drawCanvas read.                                                  *)
(* setX(value) overwrites a cell of st with a value computed from r;       *)
(* setX(prev => ...) computes the new value from st.  Render copies st to  *)
(* r.                                                                      *)
(*                                                                         *)
(* Units: zoom is held in percent (1.0 = 100), so that the steps 0.1 and   *)
(* 0.25 are integers; screen coordinates and pan offsets are held in       *)
(* hundredths of a pixel, so that a cell centre at any zoom is an integer. *)
(* Arithmetic is exact; IEEE rounding of the source's doubles is not      *)
(* modelled.                                                               *)
(* Grid coordinates are 0-based as in the source: grid[y][x].              *)
(***************************************************************************)
EXTENDS Integers, Sequences, FiniteSets, TLC

\* The grid of the source is 64 x 48 (lines 13-14); the model checks a
\* scaled-down grid of the same shape.
CANVAS_WIDTH == 2
CANVAS_HEIGHT == 2
CELL_SIZE == 16

\* Zoom values, in percent
ZOOM_MIN == 25
ZOOM_MAX == 500
WHEEL_DELTA == 10
ZOOM_STEP == 25
MOBILE_ZOOM == 75
DEFAULT_ZOOM == 100

\* Block identifiers: 'air' (the empty id, lines 26, 180, 260), the id of a
\* selectable catalog block, and an id written by a template (line 595).
Blocks == {"air", "stone", "oak_log"}

Cols == 0 .. (CANVAS_WIDTH - 1)
Rows == 0 .. (CANVAS_HEIGHT - 1)
Cells == {<<x, y>> : x \in Cols, y \in Rows}

\* Every grid of the model's dimensions over the block ids.
AllGrids == [Rows -> [Cols -> Blocks]]

\* Array(CANVAS_HEIGHT).fill(null).map(() => Array(CANVAS_WIDTH).fill(null)
\*   .map(() => ({ blockId: 'air' })))
EmptyGrid == [y \in Rows |-> [x \in Cols |-> "air"]]

\* row[x] = { blockId: id } on a JavaScript array: an index inside the row
\* replaces the cell, a negative index adds a property and changes no cell, an
\* index past the end grows the row (the cells skipped are undefined).
WriteRow(row, x, id) ==
  IF x \in DOMAIN row THEN [row EXCEPT ![x] = id]
  ELSE IF x < 0 THEN row
  ELSE [c \in 0 .. x |-> IF c \in DOMAIN row THEN row[c]
                         ELSE IF c = x THEN id ELSE "undefined"]

\* newGrid[y][x] = { blockId: id }, for a row y of the grid
SetCell(g, x, y, id) == [g EXCEPT ![y] = WriteRow(g[y], x, id)]

VARIABLES
  st,                 \* current value of the component's useState cells
  r,                  \* the values captured by the last render
  pending,            \* handlers that set state since the last render
  pc,                 \* position inside floodFill: "idle" or "loop"
  targetBlockId,      \* floodFill's locals
  replacementBlockId,
  newGrid,
  stack,
  start,              \* the start cell of the floodFill invocation observed
  run,                \* number of floodFill invocations that have returned
  grid0,              \* the grid the first invocation read
  afterFirst,         \* the grid after the first invocation returned
  setCount,           \* per cell: times line 201 wrote it in this invocation
  iterations,         \* loop iterations of this invocation
  sawFresh,           \* the running invocation read the grid just produced
  canvas,             \* the drawing surface: see InitDrawVars
  loading,            \* texture images whose onload has not fired yet
  pointer             \* history of the pointer events: see Track

fillVars == <<pc, targetBlockId, replacementBlockId, newGrid, stack, start,
              run, grid0, afterFirst, setCount, iterations, sawFresh>>
drawVars == <<canvas, loading>>
vars == <<st, r, pending, fillVars, drawVars, pointer>>

----------------------------------------------------------------------------
\* floodFill (lines 186-207)

\* Mutant of OutOfBounds: the right edge is off by one.
OutOfBoundsOffByOne(x, y) ==
  x < 0 \/ x >= CANVAS_WIDTH - 1 \/ y < 0 \/ y >= CANVAS_HEIGHT

\* x < 0 || x >= CANVAS_WIDTH || y < 0 || y >= CANVAS_HEIGHT
OutOfBounds(x, y) == x < 0 \/ x >= CANVAS_WIDTH \/ y < 0 \/ y >= CANVAS_HEIGHT

\* const replacementBlockId = tool === 'eraser' ? 'air' : selectedBlock.id
Replacement(tool, selectedBlock) ==
  IF tool = "eraser" THEN "air" ELSE selectedBlock

\* Mutant of FillIsNoOp: the early return of line 190 is missing.
FillNeverNoOp(target, replacement) == FALSE

\* if (targetBlockId === replacementBlockId) return;
FillIsNoOp(target, replacement) == target = replacement

\* Mutant of FillSkips: a cell that no longer holds the target id is written
\* again.
FillNeverSkips(g, x, y, target) == FALSE

\* if (newGrid[y][x].blockId !== targetBlockId) continue;
FillSkips(g, x, y, target) == g[y][x] # target

\* Mutant of Neighbours: the upward neighbour [x, y - 1] is not pushed.
NeighboursNoUp(x, y) == << <<x + 1, y>>, <<x - 1, y>>, <<x, y + 1>> >>

\* stack.push([x + 1, y], [x - 1, y], [x, y + 1], [x, y - 1])
Neighbours(x, y) == << <<x + 1, y>>, <<x - 1, y>>, <<x, y + 1>>, <<x, y - 1>> >>

\* stack.pop(): the last element, and the stack without it
Top(s) == s[Len(s)]
Pop(s) == SubSeq(s, 1, Len(s) - 1)

\* One iteration of the while loop (lines 196-203) on the pair (newGrid, stack).
LoopBody(g, s, target, replacement) ==
  LET x == Top(s)[1]
      y == Top(s)[2]
  IN  IF OutOfBounds(x, y) THEN [newGrid |-> g, stack |-> Pop(s)]
      ELSE IF FillSkips(g, x, y, target) THEN [newGrid |-> g, stack |-> Pop(s)]
      ELSE [newGrid |-> SetCell(g, x, y, replacement),
            stack |-> Pop(s) \o Neighbours(x, y)]

\* while (stack.length > 0) { ... }: the loop run to its end.
RECURSIVE RunLoop(_, _, _, _)
RunLoop(g, s, target, replacement) ==
  IF Len(s) = 0 THEN g
  ELSE LET n == LoopBody(g, s, target, replacement)
       IN  RunLoop(n.newGrid, n.stack, target, replacement)

\* floodFill(startX, startY) as one step of a handler: it reads grid, tool and
\* selectedBlock of the last render, and either returns early (line 190,
\* no state is set) or hands the filled copy of that grid to setGrid.
\* grid[startY][startX].blockId of a cell that does not exist throws.
floodFill(s, startX, startY) ==
  IF startY \notin DOMAIN r.grid \/ startX \notin DOMAIN r.grid[startY]
    THEN [s EXCEPT !.crashed = TRUE]
  ELSE
    LET target == r.grid[startY][startX]
        replacement == Replacement(r.tool, r.selectedBlock)
    IN  IF FillIsNoOp(target, replacement) THEN s
        ELSE [s EXCEPT !.grid =
                RunLoop(r.grid, << <<startX, startY>> >>, target, replacement)]

----------------------------------------------------------------------------
\* Component state (lines 24-38)

InitState == [
  grid          |-> EmptyGrid,
  selectedBlock |-> "stone",
  tool          |-> "brush",
  isDrawing     |-> FALSE,
  zoom          |-> DEFAULT_ZOOM,
  showGrid      |-> TRUE,
  activeTab     |-> "editor",
  panOffset     |-> [x |-> 0, y |-> 0],
  isPanning     |-> FALSE,
  panStart      |-> [x |-> 0, y |-> 0],
  isMobile      |-> FALSE,
  crashed       |-> FALSE,    \* a handler or updater has thrown
  \* History, read by no handler: the pointer position and the pan offset
  \* read by the press that last called setPanStart.
  press         |-> [at |-> [x |-> 0, y |-> 0], offset |-> [x |-> 0, y |-> 0]] ]

InitFillVars ==
  /\ pc = "idle"
  /\ targetBlockId = "air"
  /\ replacementBlockId = "air"
  /\ newGrid = EmptyGrid
  /\ stack = << >>
  /\ start = <<0, 0>>
  /\ run = 0
  /\ grid0 = EmptyGrid
  /\ afterFirst = EmptyGrid
  /\ setCount = [c \in Cells |-> 0]
  /\ iterations = 0
  /\ sawFresh = FALSE

\* What drawCanvas (lines 72-136) puts on the surface: every cell of grid at
\* scale zoom, translated by panOffset, and the grid lines if showGrid.  The
\* closure it is called from supplies the four values.
drawCanvas(s) ==
  [grid |-> s.grid, zoom |-> s.zoom, panOffset |-> s.panOffset,
   showGrid |-> s.showGrid]

\* The values captured by the first render, whose preloadTextures and
\* drawCanvas the mount effect and every img.onload call (lines 44-46, 64-67).
FirstRender == InitState

\* Nothing is drawn: no canvas is mounted, or the mounted canvas is blank.
NoFrame == {}

\* The drawing surface.  observed: the session looks at the surface; frame:
\* what the last drawCanvas call drew on the mounted canvas element (a canvas
\* element is blank when it is mounted); missed: a render whose dependencies
\* had changed while the gallery was shown found no canvas (line 74), and no
\* later render has drawn since.

\* The sessions that do not look at the drawing surface leave it out.
Unobserved == [observed |-> FALSE, frame |-> NoFrame, missed |-> FALSE]

\* The surface is not observed and every texture has been loaded.
\* The history of the pointer events, kept by the sessions that look at it:
\* whether the last handler run since the last render was a mouse move or a
\* touch move, and whether the mouse was released (mouse up or mouse leave) with no press
\* since, and whether a render has followed that release.
Untracked == [tracked |-> FALSE, last |-> "other", released |-> "no"]
Tracked == [tracked |-> TRUE, last |-> "other", released |-> "no"]

Track(kind) ==
  IF ~pointer.tracked THEN pointer
  ELSE [pointer EXCEPT
          !.last = IF kind \in {"move", "touchmove"} THEN kind ELSE "other",
          !.released = IF kind = "up"
                         THEN (IF @ = "rendered" THEN @ ELSE "handled")
                       ELSE IF kind \in {"down", "touchstart"} THEN "no"
                       ELSE @]

InitDrawVars ==
  /\ canvas = Unobserved
  /\ loading = 0

\* The mount effect of line 48 has drawn the first render.
FirstCanvas ==
  [observed |-> TRUE, frame |-> {drawCanvas(FirstRender)}, missed |-> FALSE]

\* The dependency array [grid, zoom, showGrid, panOffset] of line 50 differs
\* between two renders.  (React compares grid and panOffset by identity; a set
\* call that stores an equal value is not a step of this model.)
DepsChanged(old, new) ==
  \/ old.grid # new.grid
  \/ old.zoom # new.zoom
  \/ old.showGrid # new.showGrid
  \/ old.panOffset # new.panOffset

\* The canvas after the commit of a render of state s that follows a render
\* of state old: the editor tab mounts a new canvas element when the previous
\* render showed the gallery (line 489), the gallery tab unmounts it and
\* canvasRef.current is null (line 74); then the effect of lines 48-50 calls
\* the new render's drawCanvas if a dependency changed.
Commit(old, s) ==
  IF ~canvas.observed THEN canvas
  ELSE IF s.activeTab # "editor"
    THEN [canvas EXCEPT !.frame = NoFrame,
                        !.missed = @ \/ (old.activeTab # "editor" /\ DepsChanged(old, s))]
  ELSE IF DepsChanged(old, s)
    THEN [canvas EXCEPT !.frame = {drawCanvas(s)}, !.missed = FALSE]
  ELSE IF old.activeTab # "editor"
    THEN [canvas EXCEPT !.frame = NoFrame]
  ELSE canvas

\* Re-render: the next render captures the current state, is committed, and
\* its effects run.
Render ==
  /\ pc = "idle"
  /\ pending > 0
  /\ r' = st
  /\ pending' = 0
  /\ canvas' = Commit(r, st)
  /\ pointer' = IF ~pointer.tracked THEN pointer
                ELSE [pointer EXCEPT
                        !.last = "other",
                        !.released = IF @ = "handled" THEN "rendered" ELSE @]
  /\ UNCHANGED <<st, fillVars, loading>>

\* img.onload (lines 64-67): the image is cached and the drawCanvas of the
\* render that called preloadTextures, the first, is called; it draws if a
\* canvas is mounted.
TextureLoaded ==
  /\ pc = "idle"
  /\ loading > 0
  /\ loading' = loading - 1
  /\ canvas' = IF canvas.observed /\ r.activeTab = "editor"
                 THEN [canvas EXCEPT !.frame = {drawCanvas(FirstRender)}]
                 ELSE canvas
  /\ UNCHANGED <<st, r, pending, fillVars, pointer>>

----------------------------------------------------------------------------
\* Templates (lines 568-623).  The generators write cells of the 64 x 48 grid;
\* the model writes the cell of its own grid that covers each of them, in the
\* source's order (a later write of another id wins).

SRC_WIDTH == 64
SRC_HEIGHT == 48

Covers(x, y, srcX, srcY) ==
  /\ (srcX * CANVAS_WIDTH) \div SRC_WIDTH = x
  /\ (srcY * CANVAS_HEIGHT) \div SRC_HEIGHT = y

generateHouseTemplate ==
  [y \in Rows |-> [x \in Cols |->
    IF \E i \in 0 .. 9 : Covers(x, y, 25 + i, 24 - i) \/ Covers(x, y, 34 - i, 24 - i)
      THEN "bricks"
    ELSE IF \E sy \in 25 .. 34, sx \in 20 .. 39 :
              (sy = 25 \/ sy = 34 \/ sx = 20 \/ sx = 39) /\ Covers(x, y, sx, sy)
      THEN "oak_planks"
    ELSE "air"]]

\* The cells the canopy loop (lines 598-604) may write: each is written when
\* Math.random() > 0.3, so any subset of them can come out.
TreeCanopy == {c \in Cells : \E sy \in 22 .. 29, sx \in 28 .. 36 : Covers(c[1], c[2], sx, sy)}

generateTreeTemplate(leaves) ==
  [y \in Rows |-> [x \in Cols |->
    IF (\E sy \in 30 .. 39 : Covers(x, y, 32, sy)) \/ <<x, y>> \in leaves
      THEN "oak_log"
    ELSE "air"]]

generateSwordTemplate ==
  [y \in Rows |-> [x \in Cols |->
    IF Covers(x, y, 31, 35) \/ Covers(x, y, 32, 35) \/ Covers(x, y, 33, 35)
       \/ Covers(x, y, 32, 36)
      THEN "brown_wool"
    ELSE IF \E i \in 0 .. 19 : Covers(x, y, 32, 15 + i)
      THEN "iron_block"
    ELSE "air"]]

\* const templates = [...] (lines 282-286), rebuilt by every render.
templates ==
  {generateHouseTemplate, generateSwordTemplate}
    \cup {generateTreeTemplate(leaves) : leaves \in SUBSET TreeCanopy}

----------------------------------------------------------------------------
\* Input events

\* Handlers that may run before the component re-renders.
MaxPending == 2

\* n pixels, in hundredths of a pixel
Px(n) == n * 100

\* Pointer positions relative to the canvas (rect.left = rect.top = 0): left
\* of / above the grid, inside the first cell, and on every further cell
\* boundary of the unzoomed grid, the last of which is outside the grid.
PointerXs == {Px(-(CELL_SIZE \div 2)), Px(CELL_SIZE \div 2)}
               \cup {Px(CELL_SIZE * c) : c \in 1 .. CANVAS_WIDTH}
PointerYs == {Px(-(CELL_SIZE \div 2)), Px(CELL_SIZE \div 2)}
               \cup {Px(CELL_SIZE * c) : c \in 1 .. CANVAS_HEIGHT}

\* The positions events take: every combination inside the unzoomed grid, and
\* each position outside it on one axis, beside the first cell on the other.
Pointers ==
  {p \in PointerXs \X PointerYs :
     \/ p[1] = Px(CELL_SIZE \div 2)
     \/ p[2] = Px(CELL_SIZE \div 2)
     \/ /\ 0 < p[1] /\ p[1] < Px(CELL_SIZE * CANVAS_WIDTH)
        /\ 0 < p[2] /\ p[2] < Px(CELL_SIZE * CANVAS_HEIGHT)}

\* Mouse events: position, button (0 primary, 1 middle) and shift key.
MouseEvents ==
  {[clientX |-> p[1], clientY |-> p[2], button |-> b, shiftKey |-> k] :
     p \in Pointers, b \in {0, 1}, k \in BOOLEAN}
\* Primary-button mouse events without modifier.
PlainMouseEvents == {e \in MouseEvents : e.button = 0 /\ ~e.shiftKey}
\* Touch events: the position of touches[0].
TouchEvents == {[clientX |-> p[1], clientY |-> p[2]] : p \in Pointers}

Tools == {"brush", "eraser", "fill"}
SelectableBlocks == {"stone", "oak_log"}

----------------------------------------------------------------------------
\* Handlers (lines 138-264, 288-292, 309-368).  Each maps the current state s
\* to the state after the handler's set calls; values read outside an updater
\* function come from r.

\* Mutant of getCanvasCoordinates: the zoom factor is left out of the divisor.
getCanvasCoordinatesNoZoom(clientX, clientY) ==
  [x |-> (clientX - r.panOffset.x) \div Px(CELL_SIZE),
   y |-> (clientY - r.panOffset.y) \div Px(CELL_SIZE)]

\* Math.floor((clientX - rect.left - panOffset.x) / (CELL_SIZE * zoom))
getCanvasCoordinates(clientX, clientY) ==
  [x |-> (clientX - r.panOffset.x) \div (CELL_SIZE * r.zoom),
   y |-> (clientY - r.panOffset.y) \div (CELL_SIZE * r.zoom)]

\* Mutant of paintCell: the eraser writes the selected block.
paintCellEraserPaints(s, x, y) ==
  [s EXCEPT !.grid = SetCell(s.grid, x, y, r.selectedBlock)]

\* setGrid(prev => ...), lines 174-184.  newGrid[y] of a row that does not
\* exist is undefined, and writing its element throws.
paintCell(s, x, y) ==
  IF r.tool \in {"brush", "eraser"} /\ y \notin DOMAIN s.grid
    THEN [s EXCEPT !.crashed = TRUE]
  ELSE
    [s EXCEPT !.grid =
       IF r.tool = "brush" THEN SetCell(s.grid, x, y, r.selectedBlock)
       ELSE IF r.tool = "eraser" THEN SetCell(s.grid, x, y, "air")
       ELSE s.grid]

\* Mutant of InsideCanvas: the lower bounds are not checked.
InsideCanvasNoLowerBound(x, y) == x < CANVAS_WIDTH /\ y < CANVAS_HEIGHT

\* Line 165, negated: the coordinate passes the bounds check.
InsideCanvas(x, y) == ~(x < 0 \/ x >= CANVAS_WIDTH \/ y < 0 \/ y >= CANVAS_HEIGHT)

\* Lines 148-172
handleCanvasClick(s, e) ==
  LET coords == getCanvasCoordinates(e.clientX, e.clientY)
  IN  IF ~InsideCanvas(coords.x, coords.y) THEN s
      ELSE IF r.tool = "fill" THEN floodFill(s, coords.x, coords.y)
      ELSE paintCell(s, coords.x, coords.y)

\* Mutant of StartsPan: the shift key is not looked at.
StartsPanNoShift(e) == e.button = 1 \/ r.tool = "pan"

\* e.button === 1 || e.shiftKey || tool === 'pan' (line 210)
StartsPan(e) == e.button = 1 \/ e.shiftKey \/ r.tool = "pan"

\* Mutant of handleMouseDown: the anchor is the pointer position alone.
handleMouseDownAnchorsAtPointer(s, e) ==
  IF StartsPan(e)
    THEN [s EXCEPT !.isPanning = TRUE,
                   !.panStart = [x |-> e.clientX, y |-> e.clientY]]
    ELSE handleCanvasClick([s EXCEPT !.isDrawing = TRUE], e)

\* Lines 209-218
handleMouseDown(s, e) ==
  IF StartsPan(e)
    THEN [s EXCEPT !.isPanning = TRUE,
                   !.panStart = [x |-> e.clientX - r.panOffset.x,
                                 y |-> e.clientY - r.panOffset.y]]
    ELSE handleCanvasClick([s EXCEPT !.isDrawing = TRUE], e)

\* Mutant of handleMouseMove: the return of line 226 is missing, so a pan move
\* goes on to the drawing branch.
handleMouseMoveFallsThrough(s, e) ==
  LET moved == IF r.isPanning
                 THEN [s EXCEPT !.panOffset = [x |-> e.clientX - r.panStart.x,
                                               y |-> e.clientY - r.panStart.y]]
                 ELSE s
  IN  IF ~r.isDrawing \/ r.tool = "fill" THEN moved
      ELSE handleCanvasClick(moved, e)

\* Lines 220-230
handleMouseMove(s, e) ==
  IF r.isPanning
    THEN [s EXCEPT !.panOffset = [x |-> e.clientX - r.panStart.x,
                                  y |-> e.clientY - r.panStart.y]]
  ELSE IF ~r.isDrawing \/ r.tool = "fill" THEN s
  ELSE handleCanvasClick(s, e)

\* Mutant of handleMouseUp: setIsPanning(false) is missing.
handleMouseUpKeepsPanning(s) == [s EXCEPT !.isDrawing = FALSE]

\* Lines 232-235
handleMouseUp(s) == [s EXCEPT !.isDrawing = FALSE, !.isPanning = FALSE]

\* Lines 237-240
handleTouchStart(s, e) == handleCanvasClick([s EXCEPT !.isDrawing = TRUE], e)

\* Mutant of handleTouchMove: the fill tool is not excluded.
handleTouchMoveFills(s, e) ==
  IF ~r.isDrawing THEN s ELSE handleCanvasClick(s, e)

\* Lines 242-245
handleTouchMove(s, e) ==
  IF ~r.isDrawing \/ r.tool = "fill" THEN s ELSE handleCanvasClick(s, e)

\* Lines 247-249
handleTouchEnd(s) == [s EXCEPT !.isDrawing = FALSE]

Max(a, b) == IF a >= b THEN a ELSE b
Min(a, b) == IF a <= b THEN a ELSE b

\* Mutant of handleWheel: the lower clamp is missing.
handleWheelNoLowerClamp(s, deltaY) ==
  [s EXCEPT !.zoom = Min(ZOOM_MAX, s.zoom + (IF deltaY > 0 THEN -WHEEL_DELTA ELSE WHEEL_DELTA))]

\* setZoom(prev => Math.max(0.25, Math.min(5, prev + delta))), lines 251-255
handleWheel(s, deltaY) ==
  LET delta == IF deltaY > 0 THEN -WHEEL_DELTA ELSE WHEEL_DELTA
  IN  [s EXCEPT !.zoom = Max(ZOOM_MIN, Min(ZOOM_MAX, s.zoom + delta))]

\* setZoom(Math.max(0.25, zoom - 0.25)), line 336
zoomOut(s) == [s EXCEPT !.zoom = Max(ZOOM_MIN, r.zoom - ZOOM_STEP)]

\* setZoom(Math.min(5, zoom + 0.25)), line 344
zoomIn(s) == [s EXCEPT !.zoom = Min(ZOOM_MAX, r.zoom + ZOOM_STEP)]

\* Mutant of resetView: the zoom is not reset.
resetViewKeepsZoom(s) == [s EXCEPT !.panOffset = [x |-> 0, y |-> 0]]

\* setPanOffset({ x: 0, y: 0 }); setZoom(1), line 353
resetView(s) == [s EXCEPT !.panOffset = [x |-> 0, y |-> 0], !.zoom = DEFAULT_ZOOM]

\* setShowGrid(!showGrid), line 364
toggleGrid(s) == [s EXCEPT !.showGrid = ~r.showGrid]

\* Mutant of clearCanvas: the first row is left as it is.
clearCanvasKeepsRow(s) ==
  [s EXCEPT !.grid = [y \in Rows |-> IF y = 0 THEN s.grid[y] ELSE EmptyGrid[y]]]

\* Lines 257-264
clearCanvas(s) == [s EXCEPT !.grid = EmptyGrid]

\* Mutant of loadTemplate: the template's last row is dropped.
loadTemplateShort(s, templateGrid) ==
  [s EXCEPT !.grid = [y \in 0 .. (CANVAS_HEIGHT - 2) |-> templateGrid[y]],
            !.activeTab = "editor"]

\* Lines 288-292
loadTemplate(s, templateGrid) ==
  [s EXCEPT !.grid = templateGrid, !.activeTab = "editor"]

\* setActiveTab(activeTab === 'editor' ? 'gallery' : 'editor'), line 450
toggleGallery(s) ==
  [s EXCEPT !.activeTab = IF r.activeTab = "editor" THEN "gallery" ELSE "editor"]

\* useMediaQuery reports a new match; the effect of lines 52-56 then runs.
mediaQueryChange(s) ==
  IF ~s.isMobile THEN [s EXCEPT !.isMobile = TRUE, !.zoom = MOBILE_ZOOM]
  ELSE [s EXCEPT !.isMobile = FALSE]

----------------------------------------------------------------------------
\* Actions: one handler run, from the closure of the last render.

\* The handler's set calls are applied; a handler that sets nothing schedules
\* no render.
HandleEvent(new, kind) ==
  /\ pc = "idle"
  /\ ~st.crashed
  /\ pending < MaxPending
  /\ st' = new
  /\ pending' = IF new = st THEN pending ELSE pending + 1
  /\ pointer' = Track(kind)
  /\ UNCHANGED <<r, fillVars, drawVars>>

Handle(new) == HandleEvent(new, "other")

\* The canvas is mounted only in the editor tab (line 489).
CanvasMounted == r.activeTab = "editor"

\* The history of the press, kept when the press calls setPanStart.
RecordPress(s, e) ==
  IF StartsPan(e)
    THEN [s EXCEPT !.press = [at |-> [x |-> e.clientX, y |-> e.clientY],
                              offset |-> r.panOffset]]
    ELSE s

MouseDown(e) ==
  CanvasMounted /\ HandleEvent(RecordPress(handleMouseDown(st, e), e), "down")
MouseMove(e) == CanvasMounted /\ HandleEvent(handleMouseMove(st, e), "move")
\* onMouseUp and onMouseLeave (lines 501-502)
MouseUp == CanvasMounted /\ HandleEvent(handleMouseUp(st), "up")
TouchStart(e) ==
  CanvasMounted /\ HandleEvent(handleTouchStart(st, e), "touchstart")
TouchMove(e) ==
  CanvasMounted /\ HandleEvent(handleTouchMove(st, e), "touchmove")
TouchEnd == CanvasMounted /\ Handle(handleTouchEnd(st))
Wheel(deltaY) == CanvasMounted /\ Handle(handleWheel(st, deltaY))
ZoomOut == Handle(zoomOut(st))
ZoomIn == Handle(zoomIn(st))
ResetView == Handle(resetView(st))
ToggleGrid == Handle(toggleGrid(st))
ClearCanvas == Handle(clearCanvas(st))
SetTool(t) == Handle([st EXCEPT !.tool = t])
SetSelectedBlock(b) == Handle([st EXCEPT !.selectedBlock = b])
ToggleGallery == Handle(toggleGallery(st))
LoadTemplate(t) == r.activeTab = "gallery" /\ Handle(loadTemplate(st, t))
MediaQueryChange == Handle(mediaQueryChange(st))

Init ==
  /\ st = InitState
  /\ r = st
  /\ pending = 0
  /\ InitFillVars
  /\ InitDrawVars
  /\ pointer = Untracked

\* The editing session: painting, filling, clearing and template loading with
\* the primary button and with touch, in the initial view.
Next ==
  \/ \E e \in PlainMouseEvents : MouseDown(e)
  \/ \E e \in PlainMouseEvents : MouseMove(e)
  \/ MouseUp
  \/ \E e \in TouchEvents : TouchStart(e)
  \/ \E e \in TouchEvents : TouchMove(e)
  \/ TouchEnd
  \/ \E t \in Tools : SetTool(t)
  \/ \E b \in SelectableBlocks : SetSelectedBlock(b)
  \/ ClearCanvas
  \/ ToggleGallery
  \/ \E t \in templates : LoadTemplate(t)
  \/ Render

Spec == Init /\ [][Next]_vars

\* The viewport session: wheel, zoom buttons, reset view, the mobile layout's
\* zoom and the overlay toggle.
NextView ==
  \/ \E deltaY \in {-1, 1} : Wheel(deltaY)
  \/ ZoomOut
  \/ ZoomIn
  \/ ResetView
  \/ ToggleGrid
  \/ MediaQueryChange
  \/ Render

SpecView == Init /\ [][NextView]_vars

\* drawCanvas (lines 87-112): after translate(panOffset), cell (x, y) is drawn
\* at (x * CELL_SIZE * zoom, y * CELL_SIZE * zoom) with sides CELL_SIZE * zoom.
\* The screen point at the centre of the drawn cell:
DrawnCellCentre(x, y) ==
  [x |-> r.panOffset.x + x * CELL_SIZE * r.zoom + (CELL_SIZE * r.zoom) \div 2,
   y |-> r.panOffset.y + y * CELL_SIZE * r.zoom + (CELL_SIZE * r.zoom) \div 2]

\* A primary-button press at the centre of the drawn cell (x, y).
CentreEvent(x, y) ==
  [clientX |-> DrawnCellCentre(x, y).x, clientY |-> DrawnCellCentre(x, y).y,
   button |-> 0, shiftKey |-> FALSE]

\* The zoom values the wheel and the buttons reach from 1.0, and pan offsets
\* a drag can leave (whole pixels, either sign).
ZoomValues == {z \in ZOOM_MIN .. ZOOM_MAX : z % 5 = 0}
PanValues == {Px(-40), 0, Px(120)}

\* The transform under every viewport: the brush is pressed at the centre of
\* drawn cells.
InitCoord ==
  /\ st \in {[InitState EXCEPT !.zoom = z, !.panOffset = [x |-> px, y |-> py]] :
               z \in ZoomValues, px \in PanValues, py \in PanValues}
  /\ r = st
  /\ pending = 0
  /\ InitFillVars
  /\ InitDrawVars
  /\ pointer = Untracked

NextCoord ==
  \/ \E x \in Cols, y \in Rows : MouseDown(CentreEvent(x, y))
  \/ MouseUp
  \/ Render

SpecCoord == InitCoord /\ [][NextCoord]_vars

----------------------------------------------------------------------------
\* The pan session: presses with the primary button, with shift held and with
\* the middle button, moves, releases and touches at a few positions, the
\* tool buttons, the zoom-out button and reset view.

\* The largest pan offset of the session on either axis and in either
\* direction, in cells of the unzoomed grid.
MaxPan == 1

\* Centres of cells of the unzoomed, unpanned grid: (0, 0) and (1, 1).
PanPointers ==
  {<<Px(CELL_SIZE \div 2), Px(CELL_SIZE \div 2)>>,
   <<Px(CELL_SIZE + CELL_SIZE \div 2), Px(CELL_SIZE + CELL_SIZE \div 2)>>}

\* Mouse events at those positions: primary button, primary button with
\* shift held, middle button.
PanMouseEvents ==
  {[clientX |-> p[1], clientY |-> p[2], button |-> k[1], shiftKey |-> k[2]] :
     p \in PanPointers, k \in {<<0, FALSE>>, <<0, TRUE>>, <<1, FALSE>>}}
\* Touch events at those positions: touches[0] and the event's shiftKey,
\* which a touch event carries like a mouse event.
PanTouchEvents ==
  {[clientX |-> p[1], clientY |-> p[2], shiftKey |-> k] :
     p \in PanPointers, k \in BOOLEAN}

Abs(n) == IF n < 0 THEN -n ELSE n

InPanRange(s) ==
  /\ Abs(s.panOffset.x) <= Px(MaxPan * CELL_SIZE)
  /\ Abs(s.panOffset.y) <= Px(MaxPan * CELL_SIZE)

\* A move of the session: one that leaves the pan offset in the range.
PanMove(e) == InPanRange(handleMouseMove(st, e)) /\ MouseMove(e)

NextPan ==
  \/ \E e \in PanMouseEvents : MouseDown(e)
  \/ \E e \in PanMouseEvents : PanMove(e)
  \/ MouseUp
  \/ \E e \in PanTouchEvents : TouchStart(e)
  \/ \E e \in PanTouchEvents : TouchMove(e)
  \/ TouchEnd
  \/ \E t \in Tools : SetTool(t)
  \/ ZoomOut
  \/ ResetView
  \/ Render

SpecPan == Init /\ [][NextPan]_vars

----------------------------------------------------------------------------
\* The drawing session: the surface is observed while the brush paints, the
\* view is panned and zoomed out, the overlay toggled, the gallery opened and
\* closed, and texture images finish loading.

\* Texture images still loading when the session starts.
Textures == 1

InitDraw ==
  /\ st = InitState
  /\ r = st
  /\ pending = 0
  /\ InitFillVars
  /\ canvas = FirstCanvas
  /\ loading = Textures
  /\ pointer = Untracked

NextDraw ==
  \/ \E e \in PanMouseEvents : MouseDown(e)
  \/ \E e \in PanMouseEvents : PanMove(e)
  \/ MouseUp
  \/ ZoomOut
  \/ ToggleGrid
  \/ ToggleGallery
  \/ TextureLoaded
  \/ Render

SpecDraw == InitDraw /\ [][NextDraw]_vars

----------------------------------------------------------------------------
\* Every handler, run from a range of rendered states: one or two handlers run
\* from the same render.

\* Grids of the range: the empty grid, a grid with one painted cell, a
\* template.
FrameGrids ==
  {EmptyGrid, SetCell(EmptyGrid, 0, 0, "stone"), generateSwordTemplate}

\* Zoom values of the range: the smallest, the default and the largest.
FrameZooms == {ZOOM_MIN, DEFAULT_ZOOM, ZOOM_MAX}

\* Pointer positions: the centres of cells (0, 0) and (1, 1) of the unzoomed,
\* unpanned grid, and a point 128 px along both axes, which is inside the
\* grid at other pan offsets and zooms.
FramePointers == PanPointers \cup {<<Px(8 * CELL_SIZE), Px(8 * CELL_SIZE)>>}

FrameMouseEvents ==
  {[clientX |-> p[1], clientY |-> p[2], button |-> k[1], shiftKey |-> k[2]] :
     p \in FramePointers, k \in {<<0, FALSE>>, <<0, TRUE>>, <<1, FALSE>>}}
FrameTouchEvents == {[clientX |-> p[1], clientY |-> p[2]] : p \in FramePointers}

\* The state after a press at pointer p that started a pan, if panning.
Panning(s, panning, p) ==
  IF panning
    THEN [s EXCEPT !.isPanning = TRUE,
                   !.panStart = [x |-> p[1] - s.panOffset.x, y |-> p[2] - s.panOffset.y],
                   !.press = [at |-> [x |-> p[1], y |-> p[2]], offset |-> s.panOffset]]
    ELSE s

InitFrame ==
  /\ st \in {Panning([InitState EXCEPT !.grid = g, !.zoom = z,
                                       !.panOffset = [x |-> o, y |-> o],
                                       !.tool = t, !.isDrawing = d, !.activeTab = a],
                      p, <<Px(CELL_SIZE \div 2), Px(CELL_SIZE \div 2)>>) :
               g \in FrameGrids, z \in FrameZooms, o \in PanValues, t \in Tools,
               d \in BOOLEAN, p \in BOOLEAN, a \in {"editor", "gallery"}}
  /\ r = st
  /\ pending = 0
  /\ InitFillVars
  /\ InitDrawVars
  /\ pointer = Untracked

NextFrame ==
  \/ \E e \in FrameMouseEvents : MouseDown(e)
  \/ \E e \in FrameMouseEvents : MouseMove(e)
  \/ MouseUp
  \/ \E e \in FrameTouchEvents : TouchStart(e)
  \/ \E e \in FrameTouchEvents : TouchMove(e)
  \/ TouchEnd
  \/ \E deltaY \in {-1, 1} : Wheel(deltaY)
  \/ ZoomOut
  \/ ZoomIn
  \/ ResetView
  \/ ToggleGrid
  \/ ClearCanvas
  \/ \E t \in Tools : SetTool(t)
  \/ ToggleGallery
  \/ \E t \in {generateHouseTemplate, generateSwordTemplate} : LoadTemplate(t)

SpecFrame == InitFrame /\ [][NextFrame]_vars

----------------------------------------------------------------------------
\* The pointer session: presses, moves and releases of the mouse and of
\* touch with every tool, with the history of the pointer events kept.

InitPointer ==
  /\ st = InitState
  /\ r = st
  /\ pending = 0
  /\ InitFillVars
  /\ canvas = Unobserved
  /\ loading = 0
  /\ pointer = Tracked

NextPointer ==
  \/ \E e \in PanMouseEvents : MouseDown(e)
  \/ \E e \in PanMouseEvents : PanMove(e)
  \/ MouseUp
  \/ \E e \in PanTouchEvents : TouchStart(e)
  \/ \E e \in PanTouchEvents : TouchMove(e)
  \/ TouchEnd
  \/ \E t \in Tools : SetTool(t)
  \/ Render

SpecPointer == InitPointer /\ [][NextPointer]_vars

----------------------------------------------------------------------------
\* floodFill observed statement by statement, on every grid.

\* The fill tool is selected and the grid is any grid over the block ids
\* (every such grid can be painted cell by cell).
InitFill ==
  /\ st \in {[InitState EXCEPT !.grid = g, !.selectedBlock = b, !.tool = "fill"] :
               g \in AllGrids, b \in Blocks}
  /\ r = st
  /\ pending = 0
  /\ InitFillVars
  /\ InitDrawVars
  /\ pointer = Untracked

\* Lines 187-193: read the target, return early or set up newGrid and stack.
\* The second invocation observed repeats the first one's start cell.
FillCall(x, y) ==
  /\ pc = "idle"
  /\ run < 2
  /\ run = 1 => start = <<x, y>>
  /\ start' = <<x, y>>
  /\ targetBlockId' = r.grid[y][x]
  /\ replacementBlockId' = Replacement(r.tool, r.selectedBlock)
  /\ grid0' = IF run = 0 THEN r.grid ELSE grid0
  /\ sawFresh' = (r.grid = st.grid)
  /\ setCount' = [c \in Cells |-> 0]
  /\ iterations' = 0
  /\ IF FillIsNoOp(r.grid[y][x], Replacement(r.tool, r.selectedBlock))
       THEN /\ run' = run + 1
            /\ afterFirst' = IF run = 0 THEN st.grid ELSE afterFirst
            /\ UNCHANGED <<pc, newGrid, stack>>
       ELSE /\ pc' = "loop"
            /\ newGrid' = r.grid
            /\ stack' = << <<x, y>> >>
            /\ UNCHANGED <<run, afterFirst>>
  /\ UNCHANGED <<st, r, pending, drawVars, pointer>>

\* Line 198: the popped coordinate is outside the grid.
FillSkipOutOfBounds ==
  /\ pc = "loop"
  /\ Len(stack) > 0
  /\ OutOfBounds(Top(stack)[1], Top(stack)[2])
  /\ LET n == LoopBody(newGrid, stack, targetBlockId, replacementBlockId)
     IN  newGrid' = n.newGrid /\ stack' = n.stack
  /\ iterations' = iterations + 1
  /\ UNCHANGED <<st, r, pending, pc, targetBlockId, replacementBlockId, start, run,
                 grid0, afterFirst, setCount, sawFresh, drawVars, pointer>>

\* Line 199: the popped cell does not hold the target id.
FillSkipCell ==
  /\ pc = "loop"
  /\ Len(stack) > 0
  /\ ~OutOfBounds(Top(stack)[1], Top(stack)[2])
  /\ FillSkips(newGrid, Top(stack)[1], Top(stack)[2], targetBlockId)
  /\ LET n == LoopBody(newGrid, stack, targetBlockId, replacementBlockId)
     IN  newGrid' = n.newGrid /\ stack' = n.stack
  /\ iterations' = iterations + 1
  /\ UNCHANGED <<st, r, pending, pc, targetBlockId, replacementBlockId, start, run,
                 grid0, afterFirst, setCount, sawFresh, drawVars, pointer>>

\* Lines 201-203: the popped cell is written and its neighbours pushed.
FillSetCell ==
  /\ pc = "loop"
  /\ Len(stack) > 0
  /\ ~OutOfBounds(Top(stack)[1], Top(stack)[2])
  /\ ~FillSkips(newGrid, Top(stack)[1], Top(stack)[2], targetBlockId)
  /\ LET n == LoopBody(newGrid, stack, targetBlockId, replacementBlockId)
     IN  newGrid' = n.newGrid /\ stack' = n.stack
  /\ setCount' = [setCount EXCEPT ![Top(stack)] = @ + 1]
  /\ iterations' = iterations + 1
  /\ UNCHANGED <<st, r, pending, pc, targetBlockId, replacementBlockId, start, run,
                 grid0, afterFirst, sawFresh, drawVars, pointer>>

\* Line 206: the loop has ended; setGrid(newGrid).
FillReturn ==
  /\ pc = "loop"
  /\ Len(stack) = 0
  /\ st' = [st EXCEPT !.grid = newGrid]
  /\ pending' = pending + 1
  /\ pc' = "idle"
  /\ run' = run + 1
  /\ afterFirst' = IF run = 0 THEN newGrid ELSE afterFirst
  /\ UNCHANGED <<r, targetBlockId, replacementBlockId, newGrid, stack, start,
                 grid0, setCount, iterations, sawFresh, drawVars, pointer>>

NextFill ==
  \/ \E x \in Cols, y \in Rows : FillCall(x, y)
  \/ FillSkipOutOfBounds
  \/ FillSkipCell
  \/ FillSetCell
  \/ FillReturn
  \/ Render

SpecFill == InitFill /\ [][NextFill]_vars

\* A running floodFill runs on: JavaScript executes the handler to its end.
FillStep == FillSkipOutOfBounds \/ FillSkipCell \/ FillSetCell \/ FillReturn
SpecFillFair == SpecFill /\ WF_vars(FillStep)

----------------------------------------------------------------------------
\* Properties of floodFill (checked under SpecFill)

Adjacent(c, d) ==
  \/ c[1] = d[1] /\ (c[2] = d[2] + 1 \/ c[2] = d[2] - 1)
  \/ c[2] = d[2] /\ (c[1] = d[1] + 1 \/ c[1] = d[1] - 1)

\* The cells 4-connected to the cells of S through cells of g holding id.
RECURSIVE Grow(_, _, _)
Grow(g, id, S) ==
  LET T == S \cup {c \in Cells : g[c[2]][c[1]] = id /\ \E d \in S : Adjacent(c, d)}
  IN  IF T = S THEN S ELSE Grow(g, id, T)

Region(g, c) == Grow(g, g[c[2]][c[1]], {c})

\* The first invocation: the id of its start cell and its replacement id.
FirstTarget == grid0[start[2]][start[1]]
FirstReplacement == Replacement(st.tool, st.selectedBlock)
FirstReturned == run >= 1

\* C1: for every grid, start cell and replacement id different from the start
\* cell's id, floodFill changes exactly the cells 4-connected to the start cell
\* through cells holding the start cell's original id: those cells end up
\* holding the replacement id, every other cell keeps its id.
C1_FillRegion ==
  (FirstReturned /\ FirstTarget # FirstReplacement) =>
    \A c \in Cells :
      afterFirst[c[2]][c[1]] =
        IF c \in Region(grid0, start) THEN FirstReplacement
        ELSE grid0[c[2]][c[1]]

\* C1 witness: a fill has returned that replaced a region of several cells and
\* left alone a cell holding the target id that is not connected to it, and a
\* fill has returned that left alone a cell holding a third id.
C1_Witness ==
  /\ FirstReturned
  /\ FirstTarget # FirstReplacement
  /\ afterFirst # grid0
  /\ \E c \in Cells \ Region(grid0, start) :
       /\ grid0[c[2]][c[1]] = FirstTarget
       /\ afterFirst[c[2]][c[1]] = FirstTarget
  /\ \E c \in Cells : grid0[c[2]][c[1]] \notin {FirstTarget, FirstReplacement}

\* C5: floodFill is idempotent: applied twice in succession at the same cell
\* with the same replacement id it yields the grid the first application
\* yielded; a second application that reads the first one's result returns
\* early, without entering the loop.
C5_FillIdempotent ==
  /\ run = 2 => st.grid = afterFirst
  /\ (run = 1 /\ sawFresh) => pc = "idle"

\* C5 witness: a second application has returned after a first one that
\* changed the grid.
C5_Witness ==
  /\ run = 2
  /\ sawFresh
  /\ afterFirst # grid0
  /\ st.grid = afterFirst

\* C6: floodFill on a grid whose cells all hold the same id A, with
\* replacement id B, started at any cell, yields a grid whose cells all hold B.
C6_FillUniform ==
  (FirstReturned /\ \A c \in Cells : grid0[c[2]][c[1]] = FirstTarget) =>
    \A c \in Cells : afterFirst[c[2]][c[1]] = FirstReplacement

\* C6 witness: a uniform grid of A has been filled with a different id B.
C6_Witness ==
  /\ FirstReturned
  /\ \A c \in Cells : grid0[c[2]][c[1]] = "air"
  /\ FirstReplacement = "stone"
  /\ \A c \in Cells : st.grid[c[2]][c[1]] = "stone"

\* C7: every invocation of floodFill terminates (a running loop leads to an
\* empty stack and the return), and within one invocation each cell is
\* written at most once.
C7_FillTerminates ==
  /\ [](\A c \in Cells : setCount[c] <= 1)
  /\ (pc = "loop") ~> (pc = "idle" /\ Len(stack) = 0)

\* C7 witness: an invocation that wrote every cell has returned.
C7_Witness ==
  /\ pc = "idle"
  /\ run = 1
  /\ Len(stack) = 0
  /\ \A c \in Cells : setCount[c] = 1

\* C17 as stated: during any floodFill invocation the work stack never holds
\* more than Width x Height entries.
C17_StackWithinCells == Len(stack) <= CANVAS_WIDTH * CANVAS_HEIGHT

\* C17 amended: during any floodFill invocation the work stack never holds
\* more than 3 x Width x Height + 1 entries: the start cell, and for each
\* cell written (at most once each) four pushed for one popped.
C17_StackWithinThreePerCell == Len(stack) <= 3 * CANVAS_WIDTH * CANVAS_HEIGHT + 1

\* C17 witness: the loop is running with more entries on the stack than the
\* grid has cells.
C17_Witness ==
  /\ pc = "loop"
  /\ Len(stack) > CANVAS_WIDTH * CANVAS_HEIGHT
  /\ \E c \in Cells : setCount[c] = 0

----------------------------------------------------------------------------
\* Properties of the editing session (checked under Spec)

\* Every block id a cell can hold: the catalog ids of the model and the ids
\* the templates write.
BlockIds == Blocks \cup {"oak_planks", "bricks", "iron_block", "brown_wool"}

Cell(g, c) == g[c[2]][c[1]]

\* C2: in every state reachable by brush, eraser, fill, clear and template
\* load, the grid has exactly CANVAS_HEIGHT rows of exactly CANVAS_WIDTH cells
\* and every cell holds a block id.
C2_GridShape ==
  /\ DOMAIN st.grid = Rows
  /\ \A y \in Rows : DOMAIN st.grid[y] = Cols
  /\ \A y \in Rows : \A x \in Cols : st.grid[y][x] \in BlockIds

\* C2 witness: a grid that holds a template's id, a painted id and an erased
\* or untouched cell.
C2_Witness ==
  /\ \E c \in Cells : Cell(st.grid, c) \in {"bricks", "brown_wool", "iron_block"}
  /\ \E c \in Cells : Cell(st.grid, c) = "stone"
  /\ \E c \in Cells : Cell(st.grid, c) = "air"

\* The events that reach handleCanvasClick with a brush or eraser: a press, or
\* a move while a draw drag is active.
PaintEvent(e) ==
  \/ MouseDown(e)
  \/ r.isDrawing /\ ~r.isPanning /\ MouseMove(e)
  \/ TouchStart(e)
  \/ r.isDrawing /\ TouchMove(e)

\* The events that reach handleCanvasClick with any tool.
PointerEvent(e) == MouseDown(e) \/ MouseMove(e) \/ TouchStart(e) \/ TouchMove(e)

InRange(c) == 0 <= c.x /\ c.x < CANVAS_WIDTH /\ 0 <= c.y /\ c.y < CANVAS_HEIGHT

\* C4: a paint at an in-bounds cell changes only that cell: with the brush
\* the cell afterwards holds the selected block id, with the eraser 'air';
\* every other cell is unchanged.
C4_PaintLocal ==
  [][\A e \in PlainMouseEvents :
       LET c == getCanvasCoordinates(e.clientX, e.clientY)
       IN  (InRange(c) /\ r.tool \in {"brush", "eraser"} /\ PaintEvent(e)) =>
             \A d \in Cells :
               Cell(st'.grid, d) =
                 IF d = <<c.x, c.y>>
                   THEN (IF r.tool = "brush" THEN r.selectedBlock ELSE "air")
                   ELSE Cell(st.grid, d)]_vars

\* C4 witness: one handler has run since the last render, during a brush drag,
\* and exactly one cell differs from the rendered grid: it holds the selected
\* block id.
C4_Witness ==
  /\ pending = 1
  /\ r.tool = "brush"
  /\ r.isDrawing
  /\ \E c \in Cells :
       /\ Cell(st.grid, c) = r.selectedBlock
       /\ Cell(r.grid, c) # r.selectedBlock
       /\ \A d \in Cells \ {c} : Cell(st.grid, d) = Cell(r.grid, d)
       /\ \E d \in Cells \ {c} : Cell(st.grid, d) # "air"

\* C8: a press or drag move whose computed cell coordinate lies outside the
\* grid is ignored for every tool: no cell changes and nothing is thrown.
C8_OutOfRangeIgnored ==
  [][\/ st'.grid = st.grid /\ ~st'.crashed
     \/ \A e \in PlainMouseEvents :
          ~(~InRange(getCanvasCoordinates(e.clientX, e.clientY)) /\ PointerEvent(e))]_vars

\* C8 witness: from a render with the brush (or the fill tool), no drag and no
\* cell holding the selected id, one handler has run and started a drag
\* without changing the grid: a press inside the grid would have painted or
\* filled.
C8_Witness ==
  /\ pending = 1
  /\ r.tool \in {"brush", "fill"}
  /\ ~r.isDrawing
  /\ st.isDrawing
  /\ st.grid = r.grid
  /\ \A c \in Cells : Cell(r.grid, c) # r.selectedBlock
  /\ ~st.crashed

\* C9: after clear, from any reachable grid, every cell holds 'air'.
C9_ClearEmpties ==
  [][ClearCanvas => \A c \in Cells : Cell(st'.grid, c) = "air"]_vars

\* C9 witness: one handler has run since a render whose grid held two
\* different non-empty ids, and every cell holds 'air': no paint or fill does
\* that.
C9_Witness ==
  /\ pending = 1
  /\ \E c, d \in Cells :
       /\ Cell(r.grid, c) # "air"
       /\ Cell(r.grid, d) # "air"
       /\ Cell(r.grid, c) # Cell(r.grid, d)
  /\ \A c \in Cells : Cell(st.grid, c) = "air"

----------------------------------------------------------------------------
\* Properties of the viewport (checked under SpecView and SpecCoord)

\* C3: in every state reachable by wheel events, zoom button clicks, reset
\* view and the mobile layout's zoom adjustment, zoom is at least 0.25 and at
\* most 5.0.
C3_ZoomClamped ==
  /\ ZOOM_MIN <= st.zoom /\ st.zoom <= ZOOM_MAX
  /\ ZOOM_MIN <= r.zoom /\ r.zoom <= ZOOM_MAX

\* C3 witness: a handler has run at zoom 0.30 and left zoom at 0.25: the step
\* would have gone below the minimum and was clamped.
C3_Witness ==
  /\ pending = 1
  /\ r.zoom = ZOOM_MIN + 5
  /\ st.zoom = ZOOM_MIN

\* C10: for every cell, zoom in [0.25, 5.0] and pan offset, the screen point
\* at the centre of the drawn cell is mapped by getCanvasCoordinates back to
\* the cell, and a brush press there paints that cell.
C10_RoundTrip ==
  [][\A x \in Cols, y \in Rows :
       /\ getCanvasCoordinates(DrawnCellCentre(x, y).x, DrawnCellCentre(x, y).y)
            = [x |-> x, y |-> y]
       /\ MouseDown(CentreEvent(x, y)) =>
            /\ Cell(st'.grid, <<x, y>>) = r.selectedBlock
            /\ \A d \in Cells \ {<<x, y>>} : Cell(st'.grid, d) = Cell(st.grid, d)]_vars

\* C10 witness: at the largest zoom and a negative pan offset, a press has
\* painted the last cell and no other.
C10_Witness ==
  /\ r.zoom = ZOOM_MAX
  /\ r.panOffset.x = Px(-40)
  /\ Cell(st.grid, <<CANVAS_WIDTH - 1, CANVAS_HEIGHT - 1>>) = "stone"
  /\ \A d \in Cells \ {<<CANVAS_WIDTH - 1, CANVAS_HEIGHT - 1>>} : Cell(st.grid, d) = "air"

----------------------------------------------------------------------------
\* Properties of the pan session (checked under SpecPan)

Origin == [x |-> 0, y |-> 0]

\* C11: reset view, from any reachable viewport state, yields pan offset
\* (0, 0) and zoom 1.0.
C11_ResetView ==
  [][ResetView => (st'.panOffset = Origin /\ st'.zoom = DEFAULT_ZOOM)]_vars

\* C11 witness: from a render with a panned and zoomed-out view, a handler
\* has left pan offset (0, 0) and zoom 1.0; no zoom button of the session
\* raises the zoom.
C11_Witness ==
  /\ pending >= 1
  /\ r.panOffset.x # 0 /\ r.panOffset.y # 0
  /\ r.zoom < DEFAULT_ZOOM
  /\ st.panOffset = Origin
  /\ st.zoom = DEFAULT_ZOOM

\* The press pans, as the claim describes it: isPanning is set, no cell
\* changes and no draw drag starts.
PressPans == st'.isPanning /\ st'.grid = st.grid /\ st'.isDrawing = st.isDrawing

\* The press draws: isDrawing is set, no pan starts, and a pressed cell of the
\* grid holds afterwards what the tool of the handler's render puts there
\* (brush and fill: the selected block id, eraser: 'air').
PressDraws(e) ==
  LET c == getCanvasCoordinates(e.clientX, e.clientY)
  IN  /\ st'.isDrawing
      /\ st'.isPanning = st.isPanning
      /\ st'.panOffset = st.panOffset
      /\ InRange(c) => Cell(st'.grid, <<c.x, c.y>>) = Replacement(r.tool, r.selectedBlock)

\* The press asks for a pan: pan tool, shift held or middle button.
AsksPan(e) == r.tool = "pan" \/ e.shiftKey \/ ("button" \in DOMAIN e /\ e.button = 1)

\* C12 as stated: a pointer press (mouse or touch) starts panning and paints
\* nothing whenever the pan tool is active, shift is held or the middle
\* button is the one pressed; every other press starts drawing and applies
\* the active tool at the pressed cell.
C12_PressPansOrDraws ==
  [][/\ \A e \in PanMouseEvents :
          MouseDown(e) => IF AsksPan(e) THEN PressPans ELSE PressDraws(e)
     /\ \A e \in PanTouchEvents :
          TouchStart(e) => IF AsksPan(e) THEN PressPans ELSE PressDraws(e)]_vars

\* C12 amended: a mouse press starts panning and paints nothing whenever
\* shift is held or the middle button is the one pressed (no pan tool can be
\* selected); every other mouse press, and every touch press whatever its
\* modifiers, starts drawing and applies the active tool at the pressed cell.
C12_MousePressPansOrDraws ==
  [][/\ r.tool # "pan"
     /\ \A e \in PanMouseEvents :
          MouseDown(e) => IF e.shiftKey \/ e.button = 1 THEN PressPans
                          ELSE PressDraws(e)
     /\ \A e \in PanTouchEvents : TouchStart(e) => PressDraws(e)]_vars

\* C12 witness: from one render without a drag, with the eraser and a stone
\* cell under the pointer, a press has started a pan without touching the
\* grid (press recorded at the pointer of cell (1, 1)).
C12_Witness ==
  /\ pending = 1
  /\ r.tool = "eraser"
  /\ ~r.isPanning /\ ~r.isDrawing
  /\ Cell(r.grid, <<1, 1>>) = "stone"
  /\ r.panOffset = Origin /\ r.zoom = DEFAULT_ZOOM
  /\ st.isPanning /\ ~st.isDrawing
  /\ st.press.at.x = Px(CELL_SIZE + CELL_SIZE \div 2)
  /\ st.grid = r.grid

\* C13: during a pan that began with a press at P0 while the pan offset was
\* O0, every pointer move to P sets the pan offset to O0 + (P - P0); a move
\* changes neither the anchor nor the press it came from, so the offset
\* depends on the current pointer position only.  P0 and O0 are those of the
\* press the moving handler's render has seen.
C13_DragToPan ==
  [][\A e \in PanMouseEvents :
       MouseMove(e) =>
         /\ st'.panStart = st.panStart /\ st'.press = st.press
         /\ r.isPanning =>
              st'.panOffset =
                [x |-> r.press.offset.x + (e.clientX - r.press.at.x),
                 y |-> r.press.offset.y + (e.clientY - r.press.at.y)]]_vars

\* C13 witness: a pan began at a pan offset other than (0, 0), a move took
\* the offset elsewhere, and a second move back to the position of the press
\* has restored the offset of the press.
C13_Witness ==
  /\ pending = 1
  /\ r.isPanning /\ st.isPanning
  /\ r.press.offset.x # 0
  /\ r.panOffset # r.press.offset
  /\ st.panOffset = r.press.offset

\* The move event e is handled while a draw drag with the brush or the eraser
\* is active (in the current state and in the render the handler belongs to)
\* and its position maps to a cell of the grid.
DragMoveOver(e) ==
  /\ r.isDrawing /\ st.isDrawing
  /\ r.tool \in {"brush", "eraser"}
  /\ InRange(getCanvasCoordinates(e.clientX, e.clientY))

\* The cell under the event holds afterwards what the tool paints.
PaintedUnder(e) ==
  LET c == getCanvasCoordinates(e.clientX, e.clientY)
  IN  Cell(st'.grid, <<c.x, c.y>>) = Replacement(r.tool, r.selectedBlock)

\* C14: while a draw drag is active with the brush or the eraser, every
\* pointer move event (mouse or touch) whose position maps to an in-bounds
\* cell paints that cell: the brush with the selected block id, the eraser
\* with 'air'; no move event is dropped.
C14_DragPaints ==
  [][/\ \A e \in PanMouseEvents : (DragMoveOver(e) /\ MouseMove(e)) => PaintedUnder(e)
     /\ \A e \in PanTouchEvents : (DragMoveOver(e) /\ TouchMove(e)) => PaintedUnder(e)]_vars

\* The same, for the moves handled while no pan is active.
DragPaintsUnlessPanning ==
  [][/\ \A e \in PanMouseEvents :
          (DragMoveOver(e) /\ ~r.isPanning /\ MouseMove(e)) => PaintedUnder(e)
     /\ \A e \in PanTouchEvents : (DragMoveOver(e) /\ TouchMove(e)) => PaintedUnder(e)]_vars

\* C19: in every reachable state at most one drag mode is active: isDrawing
\* and isPanning are never both true, for any sequence of mouse down, move,
\* up, leave and touch start, move, end events.
C19_OneDragMode ==
  /\ ~(st.isDrawing /\ st.isPanning)
  /\ ~(r.isDrawing /\ r.isPanning)

----------------------------------------------------------------------------
\* Properties of the drawing surface (checked under SpecDraw)

\* C15: every change of grid content, zoom, pan offset or overlay visibility
\* is followed by a full redraw drawn from the new state, before the next
\* input event is handled.  Stated for the states in which the canvas is
\* mounted and every handled event has been rendered: a change that a render
\* found no canvas for has been drawn since, so that the surface shows the
\* current state.
C15_RedrawFollowsChange ==
  (CanvasMounted /\ pending = 0 /\ canvas.missed) =>
    canvas.frame = {drawCanvas(st)}

\* C16: for every interleaving of texture-load completions with edits and
\* viewport changes, the redraw triggered by a completed texture load draws
\* the grid, zoom, pan offset and overlay flag that are current at that
\* moment: the frame on the surface is never one drawn from an older grid or
\* viewport.  Stated for the loads that complete while the canvas is mounted
\* and every handled event has been rendered.
C16_LoadDrawsCurrent ==
  [][(TextureLoaded /\ CanvasMounted /\ pending = 0) =>
       canvas'.frame = {drawCanvas(st)}]_vars

----------------------------------------------------------------------------
\* Properties of every handler (checked under SpecFrame)

ViewSame == st'.zoom = st.zoom /\ st'.panOffset = st.panOffset
GridSame == st'.grid = st.grid

\* C18: viewport and editing state are separated.  Wheel zoom, the zoom
\* buttons, reset view and the overlay toggle never change a grid cell; clear
\* and template load never change zoom or pan offset; a press that starts a
\* pan and a move handled while panning change no grid cell; every other
\* press or move, and every touch, applies the brush, the eraser or the fill
\* or does nothing, and changes neither zoom nor pan offset.
C18_ViewAndGridSeparate ==
  [][/\ ((\E deltaY \in {-1, 1} : Wheel(deltaY))
           \/ ZoomOut \/ ZoomIn \/ ResetView \/ ToggleGrid) => GridSame
     /\ (ClearCanvas \/ \E t \in templates : LoadTemplate(t)) => ViewSame
     /\ \A e \in FrameMouseEvents :
          /\ MouseDown(e) => IF e.shiftKey \/ e.button = 1 THEN GridSame ELSE ViewSame
          /\ MouseMove(e) => IF r.isPanning THEN GridSame ELSE ViewSame
     /\ (\E e \in FrameTouchEvents : TouchStart(e) \/ TouchMove(e)) => ViewSame]_vars

\* C18 witness: from a render with both a draw drag and a pan active, the
\* brush selected and the pointed cell empty, two handlers have run: the pan
\* offset and a grid cell have both changed.
C18_Witness ==
  /\ pending = 2
  /\ r.isDrawing /\ r.isPanning /\ r.tool = "brush"
  /\ st.panOffset # r.panOffset
  /\ st.grid # r.grid
  /\ st.zoom = r.zoom

\* The active tool applied at cell c of grid g: the brush and the eraser write
\* the one cell, the fill replaces the region of c's id in g.
EditOn(g, c) ==
  IF r.tool = "fill"
    THEN (IF g[c.y][c.x] = r.selectedBlock THEN g
          ELSE RunLoop(g, << <<c.x, c.y>> >>, g[c.y][c.x], r.selectedBlock))
  ELSE SetCell(g, c.x, c.y, IF r.tool = "brush" THEN r.selectedBlock ELSE "air")

\* C20: no edit is lost.  Every press and touch start, and with the brush or
\* the eraser every drag move, that applies the tool at an in-bounds cell leaves the grid that the
\* tool gives on the grid produced by all editing events handled before it,
\* also when an earlier event was handled after the last render.
C20_NoEditLost ==
  [][\A e \in PlainMouseEvents :
       LET c == getCanvasCoordinates(e.clientX, e.clientY)
       IN  (/\ InRange(c)
            /\ r.tool = "fill" => (MouseDown(e) \/ TouchStart(e))
            /\ PaintEvent(e)) => st'.grid = EditOn(st.grid, c)]_vars

\* The same statement for the brush and the eraser alone, whose updater
\* function reads the current grid.
PaintNotLost ==
  [][\A e \in PlainMouseEvents :
       LET c == getCanvasCoordinates(e.clientX, e.clientY)
       IN  (InRange(c) /\ r.tool # "fill" /\ PaintEvent(e)) =>
             st'.grid = EditOn(st.grid, c)]_vars

\* The fill is right whenever no editing event was handled since the render
\* it reads.
FillNotLostAfterRender ==
  [][\A e \in PlainMouseEvents :
       LET c == getCanvasCoordinates(e.clientX, e.clientY)
       IN  (InRange(c) /\ st.grid = r.grid /\ PaintEvent(e)) =>
             st'.grid = EditOn(st.grid, c)]_vars

\* C21: with the fill tool active the grid changes only on a press.  No mouse
\* move and no touch move handled while the fill tool is the rendered tool
\* changes any cell, whether or not a press is held or a pan is active.
C21_FillOnlyOnPress ==
  [][(/\ r.tool = "fill"
      /\ \/ \E e \in PanMouseEvents : MouseMove(e)
         \/ \E e \in PanTouchEvents : TouchMove(e)) => GridSame]_vars

\* C21 witness: a move was handled by a render with the fill tool active, a
\* press held and no pan, while both pointed cells hold another id than the
\* selected block, so that a fill at either would have changed the grid.
C21_Witness ==
  /\ pointer.last \in {"move", "touchmove"}
  /\ r.tool = "fill" /\ r.isDrawing /\ ~r.isPanning
  /\ st.grid = r.grid
  /\ Cell(st.grid, <<0, 0>>) # r.selectedBlock
  /\ Cell(st.grid, <<1, 1>>) # r.selectedBlock

=============================================================================
